---- MODULE Spec2Model ----
(***************************************************************************)
(* Model of the Docbox API client (treppenhaus/docbox-api).                *)
(*                                                                         *)
(* The repository holds two variants of DocboxClient:                      *)
(*   "fetch"  src/src/client.ts      (fetch transport, five operations)    *)
(*   "axios"  src/unnamed/part_003   (axios transport, adds search)        *)
(* Both are modelled; the variable `variant` says which one a client is.   *)
(*                                                                         *)
(* JavaScript strings on which the code works character by character       *)
(* (URLs, credentials, query values) are sequences of one-character        *)
(* strings; header names, query keys and paths' names are atoms.           *)
(***************************************************************************)
EXTENDS Integers, Sequences, FiniteSets, TLC

VARIABLES variant, config, baseApiUrl, pc, op, opts, req, resp, outcome, sends, other

\* sends counts the hand-overs of the current call's request to the transport.
\* other is a second call on the same client, in progress at the same time.
vars == <<variant, config, baseApiUrl, pc, op, opts, req, resp, outcome, sends, other>>

(***************************************************************************)
(* Optional values: JavaScript undefined / null / a value.                 *)
(***************************************************************************)
Undef == [t |-> "undefined"]
Null == [t |-> "null"]
Num(n) == [t |-> "number", n |-> n]
Str(s) == [t |-> "string", s |-> s]
Bool(b) == [t |-> "boolean", b |-> b]
\* A Date object: hours since 1970-01-01T00:00Z, or an invalid Date (NaN).
DateAt(h) == [t |-> "Date", valid |-> TRUE, hours |-> h]
InvalidDate == [t |-> "Date", valid |-> FALSE]

\* JavaScript truthiness (the test of `if (x)`, `x || d`, `x && y`).
Truthy(v) ==
    CASE v.t = "undefined" -> FALSE
      [] v.t = "null" -> FALSE
      [] v.t = "number" -> v.n # 0
      [] v.t = "string" -> Len(v.s) > 0
      [] v.t = "boolean" -> v.b
      [] OTHER -> TRUE

(***************************************************************************)
(* Strings.                                                                *)
(***************************************************************************)
Digits == <<"0", "1", "2", "3", "4", "5", "6", "7", "8", "9">>

IsDigit(c) == \E i \in 1..10 : Digits[i] = c

RECURSIVE NatToString(_)
\* String(n) / `${n}` of a non-negative integer: its decimal digits.
NatToString(n) ==
    IF n < 10 THEN <<Digits[n + 1]>>
    ELSE NatToString(n \div 10) \o <<Digits[(n % 10) + 1]>>

\* s.includes(sub)
Includes(s, sub) ==
    \E i \in 1..(Len(s) - Len(sub) + 1) : SubSeq(s, i, i + Len(sub) - 1) = sub

\* s.replace(/\/$/, ''): one trailing slash removed.
StripTrailingSlash(s) ==
    IF Len(s) > 0 /\ s[Len(s)] = "/" THEN SubSeq(s, 1, Len(s) - 1) ELSE s

\* s.match(/:\d+$/): the string ends in a colon followed by one or more digits.
HasPortSuffix(s) ==
    \E i \in 1..(Len(s) - 1) :
        /\ s[i] = ":"
        /\ \A j \in (i + 1)..Len(s) : IsDigit(s[j])

ApiPrefix == <<"/", "a", "p", "i", "/", "v", "2">>
CloudHostName ==
    <<"c", "l", "o", "u", "d", ".", "d", "o", "c", "b", "o", "x", ".", "e", "u">>
Colon == <<":">>

DefaultPort == 8081

(***************************************************************************)
(* Construction: the effective endpoint (baseApiUrl).                      *)
(***************************************************************************)
\* src/src/client.ts constructor: keyed on the host name 'cloud.docbox.eu'.
FetchBaseApiUrl(cfg) ==
    LET baseUrl == StripTrailingSlash(cfg.baseUrl)
    IN  IF Includes(baseUrl, CloudHostName)
        THEN baseUrl \o ApiPrefix
        ELSE LET port == IF Truthy(cfg.port) THEN cfg.port.n ELSE DefaultPort
             IN  baseUrl \o Colon \o NatToString(port) \o ApiPrefix

\* The constructor without its test for a port suffix of the base URL.
AxiosBaseApiUrlNoSuffixTest(cfg) ==
    LET baseUrl == StripTrailingSlash(cfg.baseUrl)
    IN  IF Truthy(cfg.port)
        THEN baseUrl \o Colon \o NatToString(cfg.port.n) \o ApiPrefix
        ELSE baseUrl \o ApiPrefix

\* unnamed/part_003 constructor: keyed on a port suffix of the base URL.
AxiosBaseApiUrl(cfg) ==
    LET baseUrl == StripTrailingSlash(cfg.baseUrl)
        hasPort == HasPortSuffix(baseUrl)
    IN  IF hasPort
        THEN baseUrl \o ApiPrefix
        ELSE IF Truthy(cfg.port)
             THEN baseUrl \o Colon \o NatToString(cfg.port.n) \o ApiPrefix
             ELSE baseUrl \o ApiPrefix

ComputeBaseApiUrl(v, cfg) ==
    IF v = "fetch" THEN FetchBaseApiUrl(cfg) ELSE AxiosBaseApiUrl(cfg)

(***************************************************************************)
(* Configurations a caller may pass to the constructor (DocboxConfig).     *)
(***************************************************************************)
Scheme == <<"h", "t", "t", "p", "s", ":", "/", "/">>
HostName == <<"h", "o", "s", "t">>
Port8081 == <<":", "8", "0", "8", "1">>
Slash == <<"/">>

HostBase == Scheme \o HostName
HostPortBase == Scheme \o HostName \o Port8081
CloudBase == Scheme \o CloudHostName
CloudPortBase == Scheme \o CloudHostName \o Port8081

BaseUrls ==
    { HostBase, HostBase \o Slash, HostPortBase, HostPortBase \o Slash,
      CloudBase, CloudPortBase }

Ports == { Undef, Num(0), Num(8081), Num(9000) }

ApiKeys == { <<"k", "e", "y">>, <<"k", "2">> }
CloudIds == { Undef, Str(<<>>), Str(<<"c", "1">>) }
Usernames == { Undef, Str(<<>>), Str(<<"u">>), Str(<<"b", "o", "b">>) }
Passwords == { Undef, Str(<<>>), Str(<<"p", "w">>), Str(<<"s", ":", "3">>) }
ProxyHosts == { Undef, Str(<<"p", "r", "o", "x", "y">>) }

DefaultConfig ==
    [baseUrl |-> HostBase, apiKey |-> <<"k", "e", "y">>, cloudId |-> Undef,
     username |-> Undef, password |-> Undef, port |-> Undef, proxyHost |-> Undef]

\* The endpoint settings vary with the credentials at their defaults, and the
\* credentials vary with the endpoint settings at their defaults.
EndpointConfigs ==
    { [DefaultConfig EXCEPT !.baseUrl = b, !.port = p, !.proxyHost = x] :
        b \in BaseUrls, p \in Ports, x \in ProxyHosts }

CredentialConfigs ==
    { [DefaultConfig EXCEPT !.apiKey = k, !.cloudId = c, !.username = u, !.password = w] :
        k \in ApiKeys, c \in CloudIds, u \in Usernames, w \in Passwords }

Configs == EndpointConfigs \cup CredentialConfigs

Variants == {"fetch", "axios"}

(***************************************************************************)
(* Base64 (Buffer.from(s).toString('base64')) over ASCII strings.          *)
(***************************************************************************)
\* The printable ASCII characters, code 32 (space) to 126 (tilde), in order
\* (code 96, the grave accent, is spelled out).
Printable ==
    <<" ", "!", "\"", "#", "$", "%", "&", "'", "(", ")", "*", "+", ",", "-", ".", "/",
      "0", "1", "2", "3", "4", "5", "6", "7", "8", "9", ":", ";", "<", "=", ">", "?",
      "@", "A", "B", "C", "D", "E", "F", "G", "H", "I", "J", "K", "L", "M", "N", "O",
      "P", "Q", "R", "S", "T", "U", "V", "W", "X", "Y", "Z", "[", "\\", "]", "^", "_",
      "grave", "a", "b", "c", "d", "e", "f", "g", "h", "i", "j", "k", "l", "m", "n", "o",
      "p", "q", "r", "s", "t", "u", "v", "w", "x", "y", "z", "{", "|", "}", "~">>

CharCode(c) == 31 + (CHOOSE i \in 1..Len(Printable) : Printable[i] = c)

Bytes(s) == [i \in 1..Len(s) |-> CharCode(s[i])]

Base64Alphabet ==
    <<"A", "B", "C", "D", "E", "F", "G", "H", "I", "J", "K", "L", "M", "N", "O", "P",
      "Q", "R", "S", "T", "U", "V", "W", "X", "Y", "Z", "a", "b", "c", "d", "e", "f",
      "g", "h", "i", "j", "k", "l", "m", "n", "o", "p", "q", "r", "s", "t", "u", "v",
      "w", "x", "y", "z", "0", "1", "2", "3", "4", "5", "6", "7", "8", "9", "+", "/">>

Sextet(n) == Base64Alphabet[n + 1]

RECURSIVE Base64Bytes(_)
Base64Bytes(b) ==
    IF Len(b) = 0 THEN <<>>
    ELSE IF Len(b) = 1
    THEN <<Sextet(b[1] \div 4), Sextet((b[1] % 4) * 16), "=", "=">>
    ELSE IF Len(b) = 2
    THEN <<Sextet(b[1] \div 4), Sextet((b[1] % 4) * 16 + (b[2] \div 16)),
           Sextet((b[2] % 16) * 4), "=">>
    ELSE <<Sextet(b[1] \div 4), Sextet((b[1] % 4) * 16 + (b[2] \div 16)),
           Sextet((b[2] % 16) * 4 + (b[3] \div 64)), Sextet(b[3] % 64)>>
         \o Base64Bytes(SubSeq(b, 4, Len(b)))

Base64(s) == Base64Bytes(Bytes(s))

(***************************************************************************)
(* Headers: a function from header names to values.                        *)
(***************************************************************************)
ApplicationJson ==
    <<"a", "p", "p", "l", "i", "c", "a", "t", "i", "o", "n", "/", "j", "s", "o", "n">>
BasicPrefix == <<"B", "a", "s", "i", "c", " ">>

\* {...a, ...b}: the entries of b override those of a.
Spread(a, b) == b @@ a

\* delete h[name]
Without(h, name) == [k \in DOMAIN h \ {name} |-> h[k]]

NoHeaders == [k \in {} |-> <<>>]

\* The credentials sent in the clear, not base64-encoded.
BasicAuthValuePlain(cfg) == BasicPrefix \o cfg.username.s \o Colon \o cfg.password.s

\* 'Basic ' followed by the base64 of username:password.
BasicAuthValue(cfg) ==
    BasicPrefix \o Base64(cfg.username.s \o Colon \o cfg.password.s)

CloudIdHeader(cfg) ==
    IF Truthy(cfg.cloudId) THEN "Cloud-ID" :> cfg.cloudId.s ELSE NoHeaders

AuthorizationHeader(cfg) ==
    IF Truthy(cfg.username) /\ Truthy(cfg.password)
    THEN "Authorization" :> BasicAuthValue(cfg)
    ELSE NoHeaders

ApiKeyHeader(cfg) == "API-Key" :> cfg.apiKey

AcceptHeader == "Accept" :> ApplicationJson

\* getHeaders() with the Cloud-ID header forgotten.
GetHeadersWithoutCloudId(cfg) ==
    Spread(Spread(ApiKeyHeader(cfg), AuthorizationHeader(cfg)), AcceptHeader)

\* getHeaders() of either variant (the fetch variant is only ever called with
\* includeContentType at its default, true).
GetHeaders(cfg) ==
    Spread(Spread(Spread(ApiKeyHeader(cfg), CloudIdHeader(cfg)),
                  AuthorizationHeader(cfg)), AcceptHeader)

(***************************************************************************)
(* Dates: Date.prototype.toISOString() and .split('T')[0].                 *)
(***************************************************************************)
\* The civil date (UTC) of a day number counted from 1970-01-01.
CivilFromDays(days) ==
    LET z == days + 719468
        era == z \div 146097
        doe == z - era * 146097
        yoe == (doe - (doe \div 1460) + (doe \div 36524) - (doe \div 146096)) \div 365
        doy == doe - (365 * yoe + (yoe \div 4) - (yoe \div 100))
        mp == (5 * doy + 2) \div 153
        d == doy - ((153 * mp + 2) \div 5) + 1
        m == IF mp < 10 THEN mp + 3 ELSE mp - 9
        y == yoe + era * 400 + (IF m <= 2 THEN 1 ELSE 0)
    IN  [year |-> y, month |-> m, day |-> d]

RECURSIVE PadLeft(_, _)
\* s.padStart(n, '0')
PadLeft(s, n) == IF Len(s) >= n THEN s ELSE PadLeft(<<"0">> \o s, n)

\* toISOString() of a valid Date at a whole hour: YYYY-MM-DDTHH:00:00.000Z, the
\* year in the expanded form +YYYYYY beyond 9999.
ToISOString(date) ==
    LET c == CivilFromDays(date.hours \div 24)
        hh == PadLeft(NatToString(date.hours % 24), 2)
        yyyy == IF c.year <= 9999
                THEN PadLeft(NatToString(c.year), 4)
                ELSE <<"+">> \o PadLeft(NatToString(c.year), 6)
    IN  yyyy \o <<"-">> \o PadLeft(NatToString(c.month), 2) \o <<"-">>
        \o PadLeft(NatToString(c.day), 2) \o <<"T">> \o hh
        \o <<":", "0", "0", ":", "0", "0", ".", "0", "0", "0", "Z">>

\* s.split(sep)[0]: the part of s before the first sep (all of s without one).
SplitFirst(s, sep) ==
    IF \E i \in 1..Len(s) : s[i] = sep
    THEN SubSeq(s, 1, (CHOOSE i \in 1..Len(s) :
                          s[i] = sep /\ \A j \in 1..(i - 1) : s[j] # sep) - 1)
    ELSE s

\* The date conversion without the split at 'T'.
DateParamWithTime(v) == IF v.t = "Date" THEN Str(ToISOString(v)) ELSE v

\* v instanceof Date ? v.toISOString().split('T')[0] : v
DateParam(v) ==
    IF v.t = "Date" THEN Str(SplitFirst(ToISOString(v), "T")) ELSE v

\* toISOString() throws a RangeError on an invalid Date.
DateThrows(v) == v.t = "Date" /\ ~v.valid

(***************************************************************************)
(* Query parameters: the params object an operation builds, and its        *)
(* serialization by request().                                             *)
(***************************************************************************)
NoParams == [k \in {} |-> Undef]

\* One row per `if (...) params[key] = ...` statement of the source:
\* guard "truthy" is `if (options.x)`, "defined" is `if (options.x !== undefined)`,
\* "always" is an unconditional entry; date rows go through DateParam.
Row(o, k, g, d) == [opt |-> o, key |-> k, guard |-> g, date |-> d]

\* parentFolderId tested with `!== undefined`.
ArchiveStructureRowsWhenDefined ==
    << Row("parentFolderId", "parent-folder-id", "defined", FALSE) >>

ArchiveStructureRows == << Row("parentFolderId", "parent-folder-id", "truthy", FALSE) >>

FetchDocumentListRows ==
    << Row("folderId", "folder-id", "always", FALSE),
       Row("includedMetadataKeys", "included-metadata-keys", "truthy", FALSE),
       Row("excludedMetadataKeys", "excluded-matadata-keys", "truthy", FALSE),
       Row("withAutoexportStatus", "with-autoexport-status", "defined", FALSE),
       Row("filterDateCreatedAfter", "filter-date-created-after", "truthy", TRUE),
       Row("subfoldersRecursive", "subfolders-recursive", "defined", FALSE) >>

AxiosDocumentListRows ==
    << Row("folderId", "folder-id", "always", FALSE),
       Row("includedMetadataKeys", "included-metadata-keys", "truthy", FALSE),
       Row("excludedMetadataKeys", "excluded-metadata-keys", "truthy", FALSE),
       Row("withAutoexportStatus", "with-autoexport-status", "defined", FALSE),
       Row("filterDateCreatedAfter", "filter-date-created-after", "truthy", TRUE),
       Row("subfoldersRecursive", "subfolders-recursive", "defined", FALSE) >>

SearchRows ==
    << Row("paginationSize", "pagination-size", "defined", FALSE),
       Row("paginationPage", "pagination-page", "defined", FALSE),
       Row("fulltextAll", "fulltext-all", "truthy", FALSE),
       Row("fulltextOne", "fulltext-one", "truthy", FALSE),
       Row("fulltextNone", "fulltext-none", "truthy", FALSE),
       Row("fromDate", "from-date", "truthy", TRUE),
       Row("toDate", "to-date", "truthy", TRUE),
       Row("followupTerms", "followup-terms", "truthy", FALSE),
       Row("noteTerms", "note-terms", "truthy", FALSE),
       Row("keywordTerms", "keyword-terms", "truthy", FALSE),
       Row("stampsInclusive", "stamps-inclusive", "truthy", FALSE),
       Row("stampsExclusive", "stamps-exclusive", "truthy", FALSE),
       Row("documentNameTerms", "document-name-terms", "truthy", FALSE),
       Row("folderNameTerms", "folder-name-terms", "truthy", FALSE),
       Row("location", "location", "truthy", FALSE),
       Row("locationFolderId", "location-folder-id", "defined", FALSE),
       Row("recursive", "recursive", "defined", FALSE),
       Row("archiverId", "archiver-id", "defined", FALSE),
       Row("workflowName", "workflow-name", "truthy", FALSE),
       Row("workflowState", "workflow-state", "truthy", FALSE),
       Row("documentType", "document-type", "truthy", FALSE),
       Row("includeTrash", "include-trash", "defined", FALSE),
       Row("externalId", "external-id", "truthy", FALSE),
       Row("externalMetadata", "external-metadata", "truthy", FALSE) >>

DocumentListRows(v) ==
    IF v = "fetch" THEN FetchDocumentListRows ELSE AxiosDocumentListRows

\* Every guard tested as `!== undefined`.
GuardPassesWhenDefined(g, v) == g = "always" \/ v # Undef

\* Every optional entry tested as `if (options.x)`.
GuardPassesWhenTruthy(g, v) == g = "always" \/ Truthy(v)

\* The test of a row's if-statement on the option's value.
GuardPasses(g, v) ==
    CASE g = "truthy" -> Truthy(v)
      [] g = "defined" -> v # Undef
      [] OTHER -> TRUE

\* An option the caller left out reads as undefined.
Opt(o, name) == IF name \in DOMAIN o THEN o[name] ELSE Undef

\* A params object keyed by the names of the options, not by the rows' keys.
BuildParamsByOptionName(rows, o) ==
    LET passing == { i \in 1..Len(rows) : GuardPasses(rows[i].guard, Opt(o, rows[i].opt)) }
        rowOf(k) == rows[CHOOSE i \in passing : rows[i].opt = k]
    IN  [k \in { rows[i].opt : i \in passing } |->
            IF rowOf(k).date THEN DateParam(Opt(o, k)) ELSE Opt(o, k)]

\* The params object built by the if-statements of `rows` from options o.
BuildParams(rows, o) ==
    LET passing == { i \in 1..Len(rows) : GuardPasses(rows[i].guard, Opt(o, rows[i].opt)) }
        rowOf(k) == rows[CHOOSE i \in passing : rows[i].key = k]
    IN  [k \in { rows[i].key : i \in passing } |->
            IF rowOf(k).date THEN DateParam(Opt(o, rowOf(k).opt))
            ELSE Opt(o, rowOf(k).opt)]

\* A date row whose if-statement is entered with an invalid Date throws.
ParamsThrow(rows, o) ==
    \E i \in 1..Len(rows) :
        /\ rows[i].date
        /\ GuardPasses(rows[i].guard, Opt(o, rows[i].opt))
        /\ DateThrows(Opt(o, rows[i].opt))

TrueChars == <<"t", "r", "u", "e">>
FalseChars == <<"f", "a", "l", "s", "e">>

\* A conversion that writes a boolean as 1 or 0.
StringOfBooleanAsBit(v) ==
    CASE v.t = "number" -> NatToString(v.n)
      [] v.t = "boolean" -> (IF v.b THEN <<"1">> ELSE <<"0">>)
      [] OTHER -> v.s

\* String(value) of a number, a boolean or a string.
StringOf(v) ==
    CASE v.t = "number" -> NatToString(v.n)
      [] v.t = "boolean" -> (IF v.b THEN TrueChars ELSE FalseChars)
      [] OTHER -> v.s

\* The query string's entries: every entry of params whose value is neither
\* undefined nor null, as a string.
SerializeParams(params) ==
    [k \in { x \in DOMAIN params : params[x] # Undef /\ params[x] # Null } |->
        StringOf(params[k])]

(***************************************************************************)
(* Bodies: JSON records and multipart forms.                               *)
(*                                                                         *)
(* A JavaScript object is the sequence of its <<key, value>> entries in    *)
(* insertion order; an array is [t |-> "array", items |-> <<...>>].        *)
(***************************************************************************)
Arr(items) == [t |-> "array", items |-> items]
Obj(entries) == [t |-> "object", entries |-> entries]
EmptyObject == Obj(<<>>)

RECURSIVE JoinReversed(_, _)
\* The items joined last to first.
JoinReversed(items, sep) ==
    IF Len(items) = 0 THEN <<>>
    ELSE IF Len(items) = 1 THEN items[1]
    ELSE JoinReversed(Tail(items), sep) \o sep \o items[1]

RECURSIVE Join(_, _)
\* items.join(sep)
Join(items, sep) ==
    IF Len(items) = 0 THEN <<>>
    ELSE IF Len(items) = 1 THEN items[1]
    ELSE items[1] \o sep \o Join(Tail(items), sep)

Quote == <<"\"">>
Comma == <<",">>
NullChars == <<"n", "u", "l", "l">>

\* JSON.stringify of a value (strings here hold no character that needs escaping).
JsonScalar(v) ==
    CASE v.t = "string" -> Quote \o v.s \o Quote
      [] v.t = "number" -> NatToString(v.n)
      [] v.t = "boolean" -> (IF v.b THEN TrueChars ELSE FalseChars)
      [] OTHER -> NullChars

\* JSON.stringify of a flat object: entries whose value is undefined are left out.
JsonStringify(entries) ==
    LET IsDefined(e) == e[2] # Undef
        kept == SelectSeq(entries, IsDefined)
        texts == [i \in 1..Len(kept) |-> Quote \o kept[i][1] \o Quote \o Colon \o JsonScalar(kept[i][2])]
    IN  <<"{">> \o Join(texts, Comma) \o <<"}">>

NameKey == <<"n", "a", "m", "e">>
ParentFolderIdKey == <<"p", "a", "r", "e", "n", "t", "F", "o", "l", "d", "e", "r", "I", "d">>
ParentFolderPathKey == <<"p", "a", "r", "e", "n", "t", "F", "o", "l", "d", "e", "r", "P", "a", "t", "h">>

\* A createFolder that sends the parent path only when no parent id is given.
FolderBodyOneParent(o) ==
    << <<NameKey, Opt(o, "name")>> >>
    \o (IF Truthy(Opt(o, "parentFolderId"))
        THEN << <<ParentFolderIdKey, Opt(o, "parentFolderId")>> >>
        ELSE IF Truthy(Opt(o, "parentFolderPath"))
        THEN << <<ParentFolderPathKey, Opt(o, "parentFolderPath")>> >>
        ELSE <<>>)

\* createFolder: the record sent as the JSON body.
FolderBody(o) ==
    << <<NameKey, Opt(o, "name")>> >>
    \o (IF Truthy(Opt(o, "parentFolderId"))
        THEN << <<ParentFolderIdKey, Opt(o, "parentFolderId")>> >> ELSE <<>>)
    \o (IF Truthy(Opt(o, "parentFolderPath"))
        THEN << <<ParentFolderPathKey, Opt(o, "parentFolderPath")>> >> ELSE <<>>)

\* One row per formData.append of uploadFile, in source order. guard: "truthy" is
\* `if (options.x)`, "nonEmpty" is `if (options.x && options.x.length > 0)`,
\* "defined" is `if (options.x !== undefined)`. conv: how the value becomes the
\* part's text: as it is, x.toString(), x.join(','), JSON.stringify(x).
FormRow(o, n, g, c) == [opt |-> o, part |-> n, guard |-> g, conv |-> c]

UploadRows ==
    << FormRow("targetMandatorName", "targetMandatorName", "truthy", "asIs"),
       FormRow("targetFolderPath", "targetFolderPath", "truthy", "asIs"),
       FormRow("targetFolderId", "targetFolderId", "truthy", "toString"),
       FormRow("targetDocumentName", "targetDocumentName", "truthy", "asIs"),
       FormRow("keywords", "keywords", "nonEmpty", "join"),
       FormRow("documentTypes", "documentTypes", "nonEmpty", "join"),
       FormRow("externalId", "externalId", "truthy", "asIs"),
       FormRow("externalMetadata", "externalMetadatas", "truthy", "json"),
       FormRow("emailImportOrder", "emailImportOrder", "truthy", "asIs"),
       FormRow("forceNewDocument", "forceNewDocument", "defined", "toString") >>

\* Every field appended as soon as it is not undefined.
FormGuardPassesWhenDefined(g, v) == v # Undef

FormGuardPasses(g, v) ==
    CASE g = "truthy" -> Truthy(v)
      [] g = "nonEmpty" -> Truthy(v) /\ Len(v.items) > 0
      [] OTHER -> v # Undef

\* The text of a form part.
PartText(c, v) ==
    CASE c = "toString" -> StringOf(v)
      [] c = "join" -> Join(v.items, Comma)
      [] c = "json" -> JsonStringify(v.entries)
      [] OTHER -> v.s

\* null.toString() throws a TypeError.
FormThrows(o) ==
    \E i \in 1..Len(UploadRows) :
        /\ UploadRows[i].conv = "toString"
        /\ FormGuardPasses(UploadRows[i].guard, Opt(o, UploadRows[i].opt))
        /\ Opt(o, UploadRows[i].opt) = Null

\* The parts of the form uploadFile builds: the file first, then each optional
\* field whose if-statement is entered.
UploadParts(o) ==
    LET Entered(r) == FormGuardPasses(r.guard, Opt(o, r.opt))
        rows == SelectSeq(UploadRows, Entered)
    IN  << [name |-> "uploadData", value |-> Opt(o, "fileData").s,
            filename |-> Opt(o, "fileName")] >>
        \o [i \in 1..Len(rows) |->
              [name |-> rows[i].part, value |-> PartText(rows[i].conv, Opt(o, rows[i].opt)),
               filename |-> Undef]]

MultipartPrefix == <<"m", "u", "l", "t", "i", "p", "a", "r", "t", "/", "f", "o", "r", "m", "-", "d", "a", "t", "a", ";", " ", "b", "o", "u", "n", "d", "a", "r", "y", "=">>

\* formData.getHeaders(): the content type with the form's boundary.
FormHeaders(boundary) == "content-type" :> (MultipartPrefix \o boundary)

NoBody == [kind |-> "none"]
JsonBody(entries) == [kind |-> "json", entries |-> entries]
FormBody(parts, boundary) == [kind |-> "form", parts |-> parts, boundary |-> boundary]

(***************************************************************************)
(* request(): building the outbound request.                               *)
(***************************************************************************)
RECURSIVE DigitsToNat(_)
DigitsToNat(s) ==
    IF Len(s) = 0 THEN 0
    ELSE 10 * DigitsToNat(SubSeq(s, 1, Len(s) - 1))
         + ((CHOOSE i \in 1..10 : Digits[i] = s[Len(s)]) - 1)

\* new URL(s) accepts s: after the scheme, the authority (up to the first slash)
\* is a non-empty host, optionally followed by one colon and a port of at most
\* five digits and at most 65535.
UrlParses(s) ==
    /\ Len(s) > Len(Scheme)
    /\ SubSeq(s, 1, Len(Scheme)) = Scheme
    /\ LET rest == SubSeq(s, Len(Scheme) + 1, Len(s))
           slashes == { i \in 1..Len(rest) : rest[i] = "/" }
           authEnd == IF slashes = {} THEN Len(rest)
                      ELSE (CHOOSE i \in slashes : \A j \in slashes : i <= j) - 1
           auth == SubSeq(rest, 1, authEnd)
           colons == { i \in 1..Len(auth) : auth[i] = ":" }
       IN  /\ Len(auth) > 0
           /\ Cardinality(colons) <= 1
           /\ \A i \in colons :
                /\ i > 1
                /\ Len(auth) - i <= 5
                /\ \A j \in (i + 1)..Len(auth) : IsDigit(auth[j])
                /\ DigitsToNat(SubSeq(auth, i + 1, Len(auth))) <= 65535

\* Headers that announce JSON on every request that is no upload.
FetchHeadersAlwaysJson(cfg, body, headers) ==
    LET merged == Spread(GetHeaders(cfg), headers)
    IN  IF body.kind = "form" THEN Without(merged, "Accept")
        ELSE Spread(merged, "Content-Type" :> ApplicationJson)

\* The headers of a request of the fetch variant: the base headers, overridden
\* by the call's headers; Accept deleted for a FormData body, Content-Type set
\* for any other body.
FetchHeaders(cfg, body, headers) ==
    LET merged == Spread(GetHeaders(cfg), headers)
    IN  IF body.kind = "form" THEN Without(merged, "Accept")
        ELSE IF body.kind = "json" THEN Spread(merged, "Content-Type" :> ApplicationJson)
        ELSE merged

\* The headers of a request of the axios variant: the base headers, overridden by
\* the call's headers; axios sets Content-Type for a plain-record body.
AxiosHeaders(cfg, body, headers) ==
    LET merged == Spread(GetHeaders(cfg), headers)
    IN  IF body.kind = "json" THEN Spread(merged, "Content-Type" :> ApplicationJson)
        ELSE merged

\* Headers kept in one object that all calls of the client share: a call
\* started while another one is in flight starts from that call's headers.
RequestHeadersShared(v, cfg, body, headers) ==
    LET base == IF req.method # "none" THEN req.headers ELSE GetHeaders(cfg)
        merged == Spread(base, headers)
    IN  IF body.kind = "form" /\ v = "fetch" THEN Without(merged, "Accept")
        ELSE IF body.kind = "json" THEN Spread(merged, "Content-Type" :> ApplicationJson)
        ELSE merged

RequestHeaders(v, cfg, body, headers) ==
    IF v = "fetch" THEN FetchHeaders(cfg, body, headers)
    ELSE AxiosHeaders(cfg, body, headers)

\* The body as sent: a plain record goes through JSON.stringify.
WireBody(body) ==
    IF body.kind = "json" THEN [kind |-> "json", text |-> JsonStringify(body.entries)]
    ELSE body

NoReq == [method |-> "none"]

BuildRequest(v, cfg, base, method, endpoint, params, body, headers) ==
    [method |-> method,
     url |-> base \o endpoint,
     query |-> SerializeParams(params),
     headers |-> RequestHeaders(v, cfg, body, headers),
     body |-> WireBody(body)]

\* Only the fetch variant parses the URL itself, before anything is sent.
UrlThrows(v, base, endpoint) == v = "fetch" /\ ~UrlParses(base \o endpoint)

ArchiveStructurePath == <<"/", "a", "r", "c", "h", "i", "v", "e", "s", "t", "r", "u", "c", "t", "u", "r", "e">>
DocumentListPath == <<"/", "d", "o", "c", "u", "m", "e", "n", "t", "/", "l", "i", "s", "t">>
FileUploadPath == <<"/", "f", "i", "l", "e", "-", "u", "p", "l", "o", "a", "d">>
FolderCreatePath == <<"/", "f", "o", "l", "d", "e", "r", "/", "c", "r", "e", "a", "t", "e">>
InboxesPath == <<"/", "i", "n", "b", "o", "x", "e", "s">>
SearchPath == <<"/", "s", "e", "a", "r", "c", "h">>

(***************************************************************************)
(* Responses and their interpretation.                                     *)
(***************************************************************************)
MessageKey == <<"m", "e", "s", "s", "a", "g", "e">>
FolderIdKey == <<"f", "o", "l", "d", "e", "r", "I", "d">>
NotFoundMessage == <<"n", "o", "t", " ", "f", "o", "u", "n", "d">>

\* The records a response body may hold.
JsonUniverse ==
    { << <<MessageKey, Str(NotFoundMessage)>> >>,
      << <<MessageKey, Str(<<>>)>> >>,
      << <<FolderIdKey, Num(7)>> >>,
      <<>> }

\* JSON.parse(text): the record whose JSON text this is, or a failure.
JsonParse(text) ==
    IF \E e \in JsonUniverse : JsonStringify(e) = text
    THEN [ok |-> TRUE, value |-> Obj(CHOOSE e \in JsonUniverse : JsonStringify(e) = text)]
    ELSE [ok |-> FALSE]

\* x?.[key] of a parsed value: undefined unless x is a record that has the key.
Field(x, key) ==
    IF x.t = "object" /\ \E i \in 1..Len(x.entries) : x.entries[i][1] = key
    THEN x.entries[CHOOSE i \in 1..Len(x.entries) : x.entries[i][1] = key][2]
    ELSE Undef

TransportFailure(msg) == [kind |-> "failure", message |-> msg]

HttpResponse(status, statusText, contentLength, contentType, body) ==
    [kind |-> "response", status |-> status, statusText |-> statusText,
     contentLength |-> contentLength, contentType |-> contentType, body |-> body]

NoResp == [kind |-> "none"]

NoOutcome == [kind |-> "none"]
Value(v) == [kind |-> "value", value |-> v]
Thrown(errorType) == [kind |-> errorType]
DocboxError(message, statusCode, responseBody) ==
    [kind |-> "DocboxError", message |-> message, statusCode |-> statusCode,
     responseBody |-> responseBody]

\* Only server errors taken as failures.
IsOkBelow500(status) == status >= 200 /\ status < 500

\* response.ok / axios validateStatus: the status is in 200..299.
IsOk(status) == status >= 200 /\ status <= 299

ApiFailedPrefix == <<"A", "P", "I", " ", "r", "e", "q", "u", "e", "s", "t", " ", "f", "a", "i", "l", "e", "d", ":", " ">>
NetworkErrorPrefix == <<"N", "e", "t", "w", "o", "r", "k", " ", "e", "r", "r", "o", "r", ":", " ">>
StatusCodePrefix == <<"R", "e", "q", "u", "e", "s", "t", " ", "f", "a", "i", "l", "e", "d", " ", "w", "i", "t", "h", " ", "s", "t", "a", "t", "u", "s", " ", "c", "o", "d", "e", " ">>
StackPrefix == <<"T", "y", "p", "e", "E", "r", "r", "o", "r", ":", " ">>
SyntaxErrorMessage == <<"U", "n", "e", "x", "p", "e", "c", "t", "e", "d", " ", "e", "n", "d", " ", "o", "f", " ", "J", "S", "O", "N", " ", "i", "n", "p", "u", "t">>

\* A catch block that reports a failure to reach the remote as status 0.
FetchNetworkErrorStatusZero(msg) ==
    DocboxError(NetworkErrorPrefix \o msg, Num(0), Str(StackPrefix \o msg))

\* The catch block of the fetch variant for an error that is no DocboxError.
FetchNetworkError(msg) ==
    DocboxError(NetworkErrorPrefix \o msg, Undef, Str(StackPrefix \o msg))

\* A request() that looks for an empty body before it looks at the status.
FetchInterpretBodyFirst(r) ==
    IF r.kind = "failure" THEN FetchNetworkError(r.message)
    ELSE IF r.contentLength = Str(<<"0">>) \/ r.status = 204
    THEN Value(EmptyObject)
    ELSE IF ~IsOk(r.status)
    THEN DocboxError(ApiFailedPrefix \o r.statusText, Num(r.status), Str(r.body))
    ELSE IF r.contentType.t = "string" /\ Includes(r.contentType.s, ApplicationJson)
    THEN (IF JsonParse(r.body).ok THEN Value(JsonParse(r.body).value)
          ELSE FetchNetworkError(SyntaxErrorMessage))
    ELSE Value(Str(r.body))

\* request() of the fetch variant, from the fetch call on.
FetchInterpret(r) ==
    IF r.kind = "failure" THEN FetchNetworkError(r.message)
    ELSE IF ~IsOk(r.status)
    THEN DocboxError(ApiFailedPrefix \o r.statusText, Num(r.status), Str(r.body))
    ELSE IF r.contentLength = Str(<<"0">>) \/ r.status = 204
    THEN Value(EmptyObject)
    ELSE IF r.contentType.t = "string" /\ Includes(r.contentType.s, ApplicationJson)
    THEN (IF JsonParse(r.body).ok THEN Value(JsonParse(r.body).value)
          ELSE FetchNetworkError(SyntaxErrorMessage))
    ELSE Value(Str(r.body))

\* axios's default response transform: a non-empty text that parses as JSON is
\* replaced by the parsed value, any other body is kept as text.
AxiosData(body) ==
    IF Len(body) > 0 /\ JsonParse(body).ok THEN JsonParse(body).value ELSE Str(body)

\* error.response?.data?.message || error.message
AxiosErrorMessage(data, status) ==
    IF Truthy(Field(data, MessageKey)) THEN Field(data, MessageKey).s
    ELSE StatusCodePrefix \o NatToString(status)

\* request() of the axios variant, from axiosInstance.request on.
AxiosInterpret(r) ==
    IF r.kind = "failure" THEN DocboxError(r.message, Undef, Undef)
    ELSE IF ~IsOk(r.status)
    THEN DocboxError(AxiosErrorMessage(AxiosData(r.body), r.status), Num(r.status),
                     AxiosData(r.body))
    ELSE Value(AxiosData(r.body))

Interpret(v, r) == IF v = "fetch" THEN FetchInterpret(r) ELSE AxiosInterpret(r)

(***************************************************************************)
(* The client: construction and the public operations.                     *)
(*   pc = "idle"  no call in progress                                      *)
(*   pc = "sent"  the request req is with the transport                    *)
(*   pc = "done"  the call has settled with outcome                        *)
(***************************************************************************)
NoOpts == [k \in {} |-> Undef]

\* The second call, not started.
IdleCall ==
    [pc |-> "idle", op |-> "none", opts |-> NoOpts, req |-> NoReq, resp |-> NoResp,
     outcome |-> NoOutcome]

InitWith(configs) ==
    /\ variant \in Variants
    /\ config \in configs
    /\ baseApiUrl = ComputeBaseApiUrl(variant, config)
    /\ pc = "idle"
    /\ op = "none"
    /\ opts = NoOpts
    /\ req = NoReq
    /\ resp = NoResp
    /\ outcome = NoOutcome
    /\ sends = 0
    /\ other = IdleCall

\* An operation up to the hand-over to the transport: it rejects before sending
\* when building its arguments throws (errorType) or the URL does not parse.
Call(name, o, throws, errorType, method, endpoint, params, body, headers) ==
    /\ pc = "idle"
    /\ op' = name
    /\ opts' = o
    /\ IF throws
       THEN /\ pc' = "done"
            /\ req' = NoReq
            /\ outcome' = Thrown(errorType)
            /\ sends' = 0
       ELSE IF UrlThrows(variant, baseApiUrl, endpoint)
       THEN /\ pc' = "done"
            /\ req' = NoReq
            /\ outcome' = Thrown("TypeError")
            /\ sends' = 0
       ELSE /\ pc' = "sent"
            /\ req' = BuildRequest(variant, config, baseApiUrl, method, endpoint,
                                   params, body, headers)
            /\ outcome' = NoOutcome
            /\ sends' = 1
    /\ UNCHANGED <<variant, config, baseApiUrl, resp, other>>

\* The public methods of the class DocboxClient of each variant.
PublicOperations(v) ==
    IF v = "fetch"
    THEN {"getArchiveStructure", "listDocuments", "uploadFile", "createFolder",
          "listInboxes"}
    ELSE {"getArchiveStructure", "listDocuments", "uploadFile", "createFolder",
          "listInboxes", "search"}

\* Each operation is called with one of the option objects `options` offers.
GetArchiveStructure(options) ==
    /\ pc = "idle"
    /\ \E o \in options :
         Call("getArchiveStructure", o, FALSE, "none", "GET", ArchiveStructurePath,
              BuildParams(ArchiveStructureRows, o), NoBody, NoHeaders)

ListDocuments(options) ==
    /\ pc = "idle"
    /\ \E o \in options :
         LET rows == DocumentListRows(variant)
             throws == ParamsThrow(rows, o)
         IN  Call("listDocuments", o, throws, "RangeError", "GET", DocumentListPath,
                  IF throws THEN NoParams ELSE BuildParams(rows, o), NoBody, NoHeaders)

\* The form draws its boundary at random.
UploadFile(options, boundaries) ==
    /\ pc = "idle"
    /\ \E o \in options, boundary \in boundaries :
         LET throws == FormThrows(o)
         IN  Call("uploadFile", o, throws, "TypeError", "POST", FileUploadPath, NoParams,
                  IF throws THEN NoBody ELSE FormBody(UploadParts(o), boundary),
                  FormHeaders(boundary))

CreateFolder(options) ==
    /\ pc = "idle"
    /\ \E o \in options :
         Call("createFolder", o, FALSE, "none", "POST", FolderCreatePath, NoParams,
              JsonBody(FolderBody(o)), NoHeaders)

ListInboxes ==
    Call("listInboxes", NoOpts, FALSE, "none", "GET", InboxesPath, NoParams, NoBody,
         NoHeaders)

\* search exists in the axios variant only.
Search(options) ==
    /\ "search" \in PublicOperations(variant)
    /\ pc = "idle"
    /\ \E o \in options :
         LET throws == ParamsThrow(SearchRows, o)
         IN  Call("search", o, throws, "RangeError", "POST", SearchPath,
                  IF throws THEN NoParams ELSE BuildParams(SearchRows, o), NoBody,
                  NoHeaders)

\* A request() that hands the request to the transport a second time when the
\* first attempt ends in an error.
ReceiveAndRetry(responses) ==
    /\ pc = "sent"
    /\ \E r \in responses :
         /\ resp' = r
         /\ IF Interpret(variant, r).kind = "DocboxError" /\ sends < 2
            THEN /\ pc' = "sent"
                 /\ sends' = sends + 1
                 /\ outcome' = NoOutcome
            ELSE /\ pc' = "done"
                 /\ sends' = sends
                 /\ outcome' = Interpret(variant, r)
    /\ UNCHANGED <<variant, config, baseApiUrl, op, opts, req, other>>

\* The transport answers (or fails) and request() settles the call: one await of
\* the transport, no loop around it.
Receive(responses) ==
    /\ pc = "sent"
    /\ \E r \in responses :
         /\ resp' = r
         /\ outcome' = Interpret(variant, r)
    /\ pc' = "done"
    /\ UNCHANGED <<variant, config, baseApiUrl, op, opts, req, sends, other>>

\* A client that derives its endpoint anew after each call, from the base alone.
ReturnRederivingEndpoint ==
    /\ pc = "done"
    /\ pc' = "idle"
    /\ op' = "none"
    /\ opts' = NoOpts
    /\ req' = NoReq
    /\ resp' = NoResp
    /\ outcome' = NoOutcome
    /\ sends' = 0
    /\ baseApiUrl' = StripTrailingSlash(config.baseUrl) \o ApiPrefix
    /\ UNCHANGED <<variant, config, other>>

\* The caller takes the outcome; the client is ready for the next call.
Return ==
    /\ pc = "done"
    /\ pc' = "idle"
    /\ op' = "none"
    /\ opts' = NoOpts
    /\ req' = NoReq
    /\ resp' = NoResp
    /\ outcome' = NoOutcome
    /\ sends' = 0
    /\ UNCHANGED <<variant, config, baseApiUrl, other>>

(***************************************************************************)
(* A second call on the same client, made while the first is in progress.  *)
(* An operation runs without interruption from its call to the hand-over   *)
(* of the request to the transport (there is no await before it), so calls *)
(* interleave only at the transport: a call is started as one step, and    *)
(* the answers arrive in any order.                                        *)
(***************************************************************************)
\* The request the operation call.op builds from call.opts (call.boundary is the
\* boundary its form draws).
RequestFor(v, cfg, base, call) ==
    CASE call.op = "getArchiveStructure" ->
           BuildRequest(v, cfg, base, "GET", ArchiveStructurePath,
                        BuildParams(ArchiveStructureRows, call.opts), NoBody, NoHeaders)
      [] call.op = "listDocuments" ->
           BuildRequest(v, cfg, base, "GET", DocumentListPath,
                        BuildParams(DocumentListRows(v), call.opts), NoBody, NoHeaders)
      [] call.op = "uploadFile" ->
           BuildRequest(v, cfg, base, "POST", FileUploadPath, NoParams,
                        FormBody(UploadParts(call.opts), call.boundary),
                        FormHeaders(call.boundary))
      [] call.op = "createFolder" ->
           BuildRequest(v, cfg, base, "POST", FolderCreatePath, NoParams,
                        JsonBody(FolderBody(call.opts)), NoHeaders)
      [] call.op = "listInboxes" ->
           BuildRequest(v, cfg, base, "GET", InboxesPath, NoParams, NoBody, NoHeaders)
      [] call.op = "search" ->
           BuildRequest(v, cfg, base, "POST", SearchPath,
                        BuildParams(SearchRows, call.opts), NoBody, NoHeaders)

\* The path of an operation.
EndpointOf(name) ==
    CASE name = "getArchiveStructure" -> ArchiveStructurePath
      [] name = "listDocuments" -> DocumentListPath
      [] name = "uploadFile" -> FileUploadPath
      [] name = "createFolder" -> FolderCreatePath
      [] name = "listInboxes" -> InboxesPath
      [] name = "search" -> SearchPath

\* The second call is made: one of `calls`, none of which throws while its
\* arguments are built.
OtherCall(calls) ==
    /\ other.pc = "idle"
    /\ \E call \in calls :
         /\ call.op \in PublicOperations(variant)
         /\ other' = IF UrlThrows(variant, baseApiUrl, EndpointOf(call.op))
                     THEN [IdleCall EXCEPT !.pc = "done", !.op = call.op,
                                           !.opts = call.opts,
                                           !.outcome = Thrown("TypeError")]
                     ELSE [IdleCall EXCEPT !.pc = "sent", !.op = call.op,
                                           !.opts = call.opts,
                                           !.req = RequestFor(variant, config, baseApiUrl, call)]
    /\ UNCHANGED <<variant, config, baseApiUrl, pc, op, opts, req, resp, outcome, sends>>

\* The transport answers the second call, and request() settles it.
OtherReceive(responses) ==
    /\ other.pc = "sent"
    /\ \E r \in responses :
         other' = [other EXCEPT !.pc = "done", !.resp = r,
                                !.outcome = Interpret(variant, r)]
    /\ UNCHANGED <<variant, config, baseApiUrl, pc, op, opts, req, resp, outcome, sends>>

\* The caller takes the outcome of the second call.
OtherReturn ==
    /\ other.pc = "done"
    /\ other' = IdleCall
    /\ UNCHANGED <<variant, config, baseApiUrl, pc, op, opts, req, resp, outcome, sends>>

(***************************************************************************)
(* Inputs: the options callers pass and the answers of the transport.      *)
(***************************************************************************)
\* At most this many optional fields are supplied in one call of the
\* option-rich specification.
MaxSupplied == 2

RECURSIVE SubsetsUpTo(_, _)
\* The subsets of F with at most k elements.
SubsetsUpTo(F, k) ==
    IF k = 0 THEN {{}}
    ELSE LET smaller == SubsetsUpTo(F, k - 1)
         IN  smaller \cup { s \cup {x} : s \in smaller, x \in F }

RECURSIVE Assignments(_, _)
\* The option objects that supply exactly the fields S, each with one of its values.
Assignments(S, values) ==
    IF S = {} THEN {NoOpts}
    ELSE LET x == CHOOSE y \in S : TRUE
         IN  { (x :> v) @@ f : v \in values[x], f \in Assignments(S \ {x}, values) }

\* The option objects over the fields of `values` with at most MaxSupplied supplied.
OptionObjects(values) ==
    UNION { Assignments(S, values) : S \in SubsetsUpTo(DOMAIN values, MaxSupplied) }

X == <<"x">>
DateText == <<"2", "0", "2", "4", "-", "0", "1", "-", "0", "1">>
DateTimeText == <<"2", "0", "2", "4", "-", "0", "1", "-", "0", "1", "T", "1", "0", ":", "0", "0", ":", "0", "0", "+", "0", "2", ":", "0", "0">>

\* Hours since the epoch of 2024-01-01T00:00Z (day 19723).
NewYear2024 == 19723 * 24
\* 2024-02-29T12:00Z (day 19782) and 10000-01-01T00:00Z (day 2932897).
LeapDayNoon == 19782 * 24 + 12
Year10000 == 2932897 * 24

Strings == { Str(<<>>), Str(X) }
StringsOrNull == Strings \cup {Null}
Booleans == { Bool(FALSE), Bool(TRUE) }
BooleansOrNull == Booleans \cup {Null}
Numbers == { Num(0), Num(123) }
NumbersOrNull == Numbers \cup {Null}
\* 2023-12-31T23:00Z is midnight of 2024-01-01 at UTC+01:00.
DateObjects ==
    { DateAt(NewYear2024), DateAt(NewYear2024 - 1), DateAt(NewYear2024 + 23),
      DateAt(LeapDayNoon), DateAt(Year10000), InvalidDate }
DateValues == { Str(<<>>), Str(DateText), Str(DateTimeText) } \cup DateObjects
FewDateValues == { Str(DateText), DateAt(NewYear2024 - 1) }

ArchiveStructureValues == [parentFolderId |-> NumbersOrNull]

DocumentListValues ==
    [includedMetadataKeys |-> StringsOrNull,
     excludedMetadataKeys |-> Strings,
     withAutoexportStatus |-> BooleansOrNull,
     filterDateCreatedAfter |-> DateValues,
     subfoldersRecursive |-> Booleans]

SearchValues ==
    [paginationSize |-> Numbers, paginationPage |-> Numbers,
     fulltextAll |-> StringsOrNull, fulltextOne |-> Strings, fulltextNone |-> Strings,
     fromDate |-> DateValues, toDate |-> FewDateValues,
     followupTerms |-> Strings, noteTerms |-> Strings, keywordTerms |-> Strings,
     stampsInclusive |-> Strings, stampsExclusive |-> Strings,
     documentNameTerms |-> Strings, folderNameTerms |-> Strings,
     location |-> Strings, locationFolderId |-> NumbersOrNull,
     recursive |-> Booleans, archiverId |-> Numbers,
     workflowName |-> Strings, workflowState |-> Strings, documentType |-> Strings,
     includeTrash |-> BooleansOrNull, externalId |-> Strings,
     externalMetadata |-> Strings]

FolderIds == { Num(0), Num(123) }

ArchiveStructureOptions == OptionObjects(ArchiveStructureValues)
DocumentListOptions ==
    { ("folderId" :> id) @@ o : id \in FolderIds, o \in OptionObjects(DocumentListValues) }
SearchOptions == OptionObjects(SearchValues)

FileData == <<"%", "P", "D", "F">>
FileName == <<"i", "n", "v", "o", "i", "c", "e", ".", "p", "d", "f">>
UploadRequired == [fileData |-> Str(FileData), fileName |-> Str(FileName)]

UploadValues ==
    [targetMandatorName |-> Strings,
     targetFolderPath |-> Strings,
     targetFolderId |-> Numbers,
     targetDocumentName |-> Strings,
     keywords |-> { Arr(<<>>), Arr(<<X>>), Arr(<<X, <<"2", "0", "2", "4">>>>) },
     documentTypes |-> { Arr(<<>>), Arr(<<X>>) },
     externalId |-> Strings,
     externalMetadata |-> { Obj(<<>>), Obj(<< <<X, Str(<<"1">>)>> >>) },
     emailImportOrder |-> Strings,
     forceNewDocument |-> BooleansOrNull]

Boundaries == { <<"-", "-", "0", "1">>, <<"-", "-", "0", "2">> }

FileUploadOptions == { o @@ UploadRequired : o \in OptionObjects(UploadValues) }

FolderName == <<"X">>
FolderCreateOptions ==
    { [name |-> Str(FolderName)],
      [name |-> Str(FolderName), parentFolderId |-> Num(5)],
      [name |-> Str(FolderName), parentFolderPath |-> Str(<<"/", "D">>)],
      [name |-> Str(FolderName), parentFolderId |-> Num(5),
       parentFolderPath |-> Str(<<"/", "D">>)],
      [name |-> Str(FolderName), parentFolderId |-> Num(0)],
      [name |-> Str(FolderName), parentFolderId |-> Num(0),
       parentFolderPath |-> Str(<<"/", "D">>)],
      [name |-> Str(<<>>)] }

\* The few calls made on every configuration.
FewArchiveStructureOptions == { NoOpts, [parentFolderId |-> Num(123)] }
FewDocumentListOptions ==
    { [folderId |-> Num(123)], [folderId |-> Num(123), subfoldersRecursive |-> Bool(TRUE)] }
FewFileUploadOptions ==
    { UploadRequired, [targetFolderId |-> Num(123)] @@ UploadRequired }
FewFolderCreateOptions ==
    { [name |-> Str(FolderName)], [name |-> Str(FolderName), parentFolderId |-> Num(5)] }
FewSearchOptions == { NoOpts, [documentNameTerms |-> Str(X)] }
FewBoundaries == { <<"-", "-", "0", "1">> }

FetchFailed == <<"f", "e", "t", "c", "h", " ", "f", "a", "i", "l", "e", "d">>
OkText == <<"O", "K">>
NoContentText == <<"N", "o", " ", "C", "o", "n", "t", "e", "n", "t">>
NotFoundText == <<"N", "o", "t", " ", "F", "o", "u", "n", "d">>
ServerErrorText == <<"I", "n", "t", "e", "r", "n", "a", "l", " ", "S", "e", "r", "v", "e", "r", " ", "E", "r", "r", "o", "r">>
TextPlain == <<"t", "e", "x", "t", "/", "p", "l", "a", "i", "n">>
JsonUtf8 == ApplicationJson \o <<";", " ", "c", "h", "a", "r", "s", "e", "t", "=", "u", "t", "f", "-", "8">>

Statuses == { <<200, OkText>>, <<204, NoContentText>>, <<404, NotFoundText>>,
              <<500, ServerErrorText>> }

\* What a response carries: content-length, content-type and body.
Payloads ==
    { <<Str(<<"0">>), Undef, <<>>>>,
      <<Undef, Str(ApplicationJson), <<>>>>,
      <<Str(<<"2", "3">>), Str(JsonUtf8),
        JsonStringify(<< <<MessageKey, Str(NotFoundMessage)>> >>)>>,
      <<Undef, Str(ApplicationJson), JsonStringify(<< <<FolderIdKey, Num(7)>> >>)>>,
      <<Undef, Str(ApplicationJson), <<"{">>>>,
      <<Str(<<"2">>), Str(TextPlain), <<"o", "k">>>> }

Responses ==
    { TransportFailure(FetchFailed) }
    \cup { HttpResponse(s[1], s[2], p[1], p[2], p[3]) : s \in Statuses, p \in Payloads }

FewResponses ==
    { TransportFailure(FetchFailed),
      HttpResponse(200, OkText, Undef, Str(ApplicationJson),
                   JsonStringify(<< <<FolderIdKey, Num(7)>> >>)),
      HttpResponse(404, NotFoundText, Str(<<"2", "3">>), Str(ApplicationJson),
                   JsonStringify(<< <<MessageKey, Str(NotFoundMessage)>> >>)) }

(***************************************************************************)
(* Specifications.                                                         *)
(*   Spec       every configuration, every response, a few calls of each   *)
(*              operation                                                  *)
(*   SpecCalls  the default configuration, a few responses, the calls of   *)
(*              each operation with up to MaxSupplied optional fields      *)
(*   SpecPair   a few configurations, two calls in progress at a time      *)
(***************************************************************************)
Init == InitWith(Configs)

Next ==
    \/ GetArchiveStructure(FewArchiveStructureOptions)
    \/ ListDocuments(FewDocumentListOptions)
    \/ UploadFile(FewFileUploadOptions, FewBoundaries)
    \/ CreateFolder(FewFolderCreateOptions)
    \/ ListInboxes
    \/ Search(FewSearchOptions)
    \/ Receive(Responses)
    \/ Return

Spec == Init /\ [][Next]_vars

InitCalls == InitWith({DefaultConfig})

NextCalls ==
    \/ GetArchiveStructure(ArchiveStructureOptions)
    \/ ListDocuments(DocumentListOptions)
    \/ UploadFile(FileUploadOptions, Boundaries)
    \/ CreateFolder(FolderCreateOptions)
    \/ ListInboxes
    \/ Search(SearchOptions)
    \/ Receive(FewResponses)
    \/ Return

SpecCalls == InitCalls /\ [][NextCalls]_vars

\* The configurations and the calls of the specification of two calls at a time.
PairConfigs ==
    { DefaultConfig,
      [DefaultConfig EXCEPT !.cloudId = Str(<<"c", "1">>),
                            !.username = Str(<<"u">>), !.password = Str(<<"p", "w">>)],
      [DefaultConfig EXCEPT !.baseUrl = HostPortBase] }

PairCalls ==
    { [op |-> "getArchiveStructure", opts |-> NoOpts, boundary |-> <<>>],
      [op |-> "listDocuments", boundary |-> <<>>,
       opts |-> [folderId |-> Num(123), subfoldersRecursive |-> Bool(TRUE)]],
      [op |-> "uploadFile", boundary |-> <<"-", "-", "0", "2">>,
       opts |-> [targetFolderId |-> Num(123)] @@ UploadRequired],
      [op |-> "createFolder", boundary |-> <<>>,
       opts |-> [name |-> Str(FolderName), parentFolderId |-> Num(5)]],
      [op |-> "listInboxes", opts |-> NoOpts, boundary |-> <<>>],
      [op |-> "search", opts |-> [documentNameTerms |-> Str(X)], boundary |-> <<>>] }

InitPair == InitWith(PairConfigs)

NextPair ==
    \/ GetArchiveStructure(FewArchiveStructureOptions)
    \/ ListDocuments(FewDocumentListOptions)
    \/ UploadFile(FewFileUploadOptions, FewBoundaries)
    \/ CreateFolder(FewFolderCreateOptions)
    \/ ListInboxes
    \/ Search(FewSearchOptions)
    \/ Receive(FewResponses)
    \/ Return
    \/ OtherCall(PairCalls)
    \/ OtherReceive(FewResponses)
    \/ OtherReturn

SpecPair == InitPair /\ [][NextPair]_vars

(***************************************************************************)
(* Properties.                                                             *)
(***************************************************************************)
\* A request has been handed to the transport (and may have been answered).
RequestSent == pc \in {"sent", "done"} /\ req # NoReq

EndsWith(s, suffix) ==
    Len(s) >= Len(suffix) /\ SubSeq(s, Len(s) - Len(suffix) + 1, Len(s)) = suffix

StartsWith(s, prefix) ==
    Len(s) >= Len(prefix) /\ SubSeq(s, 1, Len(prefix)) = prefix

\* How often sub occurs in s.
Occurrences(s, sub) ==
    Cardinality({ i \in 1..(Len(s) - Len(sub) + 1) : SubSeq(s, i, i + Len(sub) - 1) = sub })

\* How many ':<digits>' port segments s holds.
PortSegments(s) ==
    Cardinality({ i \in 1..(Len(s) - 1) : s[i] = ":" /\ IsDigit(s[i + 1]) })

\* The base endpoint as configured, without its trailing slash.
ConfiguredBase == StripTrailingSlash(config.baseUrl)

BaseHasPort == HasPortSuffix(ConfiguredBase)

\* C1: with a base endpoint that already ends in an explicit port, the effective
\* endpoint holds exactly one ':<port>' segment (the base's) and ends with exactly
\* one '/api/v2', whatever the port and proxy options are.
C1_PortNeverDuplicated ==
    BaseHasPort =>
        /\ StartsWith(baseApiUrl, ConfiguredBase)
        /\ PortSegments(baseApiUrl) = 1
        /\ Occurrences(baseApiUrl, ApiPrefix) = 1
        /\ EndsWith(baseApiUrl, ApiPrefix)

ScenarioATarget == <<"h", "t", "t", "p", "s", ":", "/", "/", "h", "o", "s", "t", "/", "a", "p", "i", "/", "v", "2", "/", "a", "r", "c", "h", "i", "v", "e", "s", "t", "r", "u", "c", "t", "u", "r", "e">>

ScenarioACall ==
    /\ pc \in {"sent", "done"}
    /\ config.baseUrl = <<"h", "t", "t", "p", "s", ":", "/", "/", "h", "o", "s", "t">>
    /\ config.port = Undef
    /\ config.cloudId = Undef
    /\ op = "getArchiveStructure"
    /\ opts = NoOpts

\* C2: scenario A: on a client with base 'https://host', no port and no cloud id,
\* getArchiveStructure() with no options sends its request to exactly
\* 'https://host/api/v2/archivestructure' with no query string.
C2_ScenarioA ==
    ScenarioACall =>
        /\ req # NoReq
        /\ req.url = ScenarioATarget
        /\ DOMAIN req.query = {}

\* C3: when the base endpoint carries no port of its own and no explicit port is
\* configured, the port defaults to 8081: the effective endpoint is
\* '<base>:8081/api/v2'.
C3_DefaultPort8081 ==
    (~BaseHasPort /\ config.port = Undef) =>
        baseApiUrl = ConfiguredBase \o <<":", "8", "0", "8", "1">> \o ApiPrefix

\* The endpoint the precedence (a), (b), (c) gives when (b) is entered on
\* `portConfigured`.
PrecedenceEndpoint(portConfigured) ==
    IF BaseHasPort THEN ConfiguredBase \o ApiPrefix
    ELSE IF portConfigured
    THEN ConfiguredBase \o Colon \o NatToString(config.port.n) \o ApiPrefix
    ELSE ConfiguredBase \o ApiPrefix

CloudIdConfigured == config.cloudId.t = "string" /\ config.cloudId.s # <<>>

\* C5: every request sent carries 'API-Key' equal to the configured key, and
\* carries 'Cloud-ID' if and only if a cloud identifier is configured, then equal
\* to it.
C5_ApiKeyAndCloudId ==
    RequestSent =>
        /\ "API-Key" \in DOMAIN req.headers
        /\ req.headers["API-Key"] = config.apiKey
        /\ ("Cloud-ID" \in DOMAIN req.headers) <=> CloudIdConfigured
        /\ CloudIdConfigured => req.headers["Cloud-ID"] = config.cloudId.s

\* An upload sent by a client with a cloud identifier.
C5_Witness ==
    /\ pc = "sent"
    /\ op = "uploadFile"
    /\ CloudIdConfigured
    /\ req.headers["Cloud-ID"] = <<"c", "1">>
    /\ req.headers["API-Key"] = <<"k", "2">>

(***************************************************************************)
(* Base64 decoding (RFC 4648), to read an Authorization header back.       *)
(***************************************************************************)
SextetOf(c) == (CHOOSE i \in 1..64 : Base64Alphabet[i] = c) - 1

IsBase64Text(s) ==
    /\ Len(s) % 4 = 0
    /\ \A i \in 1..Len(s) :
         \/ \E j \in 1..64 : Base64Alphabet[j] = s[i]
         \/ s[i] = "=" /\ i >= Len(s) - 1 /\ \A k \in i..Len(s) : s[k] = "="

RECURSIVE Base64DecodeBytes(_)
Base64DecodeBytes(s) ==
    IF Len(s) = 0 THEN <<>>
    ELSE LET a == SextetOf(s[1])
             b == SextetOf(s[2])
             rest == Base64DecodeBytes(SubSeq(s, 5, Len(s)))
         IN  IF s[3] = "=" THEN <<a * 4 + (b \div 16)>>
             ELSE IF s[4] = "="
             THEN <<a * 4 + (b \div 16), (b % 16) * 16 + (SextetOf(s[3]) \div 4)>>
             ELSE <<a * 4 + (b \div 16), (b % 16) * 16 + (SextetOf(s[3]) \div 4),
                    (SextetOf(s[3]) % 4) * 64 + SextetOf(s[4])>> \o rest

CharsOfBytes(b) == [i \in 1..Len(b) |-> Printable[b[i] - 31]]

\* Both credentials are configured: non-empty strings.
CredentialsConfigured ==
    /\ config.username.t = "string" /\ config.username.s # <<>>
    /\ config.password.t = "string" /\ config.password.s # <<>>

\* C6: with a username and a password configured, every request's
\* 'Authorization' is 'Basic ' followed by the base64 text of
\* 'username:password' (it decodes to exactly that, in 4 characters per 3 bytes);
\* with one of the pair or neither, no 'Authorization' is sent.
C6_BasicAuthorization ==
    RequestSent =>
        IF CredentialsConfigured
        THEN /\ "Authorization" \in DOMAIN req.headers
             /\ LET value == req.headers["Authorization"]
                    text == SubSeq(value, Len(BasicPrefix) + 1, Len(value))
                    plain == config.username.s \o <<":">> \o config.password.s
                IN  /\ StartsWith(value, <<"B", "a", "s", "i", "c", " ">>)
                    /\ IsBase64Text(text)
                    /\ Len(text) = 4 * ((Len(plain) + 2) \div 3)
                    /\ CharsOfBytes(Base64DecodeBytes(text)) = plain
        ELSE "Authorization" \notin DOMAIN req.headers

\* A request of a client configured with bob:pw carries 'Basic Ym9iOnB3'.
C6_Witness ==
    /\ pc = "sent"
    /\ config.username = Str(<<"b", "o", "b">>)
    /\ config.password = Str(<<"p", "w">>)
    /\ req.headers["Authorization"] = <<"B", "a", "s", "i", "c", " ", "Y", "m", "9", "i", "O", "n", "B", "3">>

\* C7: every request without a multipart body carries 'Accept: application/json';
\* a request with a multipart body carries no Accept header and carries the
\* multipart content type with the form's boundary.
C7_AcceptDroppedForMultipart ==
    RequestSent =>
        IF req.body.kind = "form"
        THEN /\ "Accept" \notin DOMAIN req.headers
             /\ "content-type" \in DOMAIN req.headers
             /\ req.headers["content-type"]
                  = <<"m", "u", "l", "t", "i", "p", "a", "r", "t", "/", "f", "o", "r", "m", "-", "d", "a", "t", "a", ";", " ", "b", "o", "u", "n", "d", "a", "r", "y", "=">> \o req.body.boundary
        ELSE /\ "Accept" \in DOMAIN req.headers
             /\ req.headers["Accept"] = <<"a", "p", "p", "l", "i", "c", "a", "t", "i", "o", "n", "/", "j", "s", "o", "n">>

\* The optional query parameters of the three operations that take any, and
\* the hyphenated key of each.
QueryKeyOf ==
    [parentFolderId |-> "parent-folder-id",
     includedMetadataKeys |-> "included-metadata-keys",
     excludedMetadataKeys |-> "excluded-metadata-keys",
     withAutoexportStatus |-> "with-autoexport-status",
     filterDateCreatedAfter |-> "filter-date-created-after",
     subfoldersRecursive |-> "subfolders-recursive",
     paginationSize |-> "pagination-size", paginationPage |-> "pagination-page",
     fulltextAll |-> "fulltext-all", fulltextOne |-> "fulltext-one",
     fulltextNone |-> "fulltext-none", fromDate |-> "from-date", toDate |-> "to-date",
     followupTerms |-> "followup-terms", noteTerms |-> "note-terms",
     keywordTerms |-> "keyword-terms", stampsInclusive |-> "stamps-inclusive",
     stampsExclusive |-> "stamps-exclusive", documentNameTerms |-> "document-name-terms",
     folderNameTerms |-> "folder-name-terms", location |-> "location",
     locationFolderId |-> "location-folder-id", recursive |-> "recursive",
     archiverId |-> "archiver-id", workflowName |-> "workflow-name",
     workflowState |-> "workflow-state", documentType |-> "document-type",
     includeTrash |-> "include-trash", externalId |-> "external-id",
     externalMetadata |-> "external-metadata"]

OptionalParameters(operation) ==
    CASE operation = "getArchiveStructure" -> {"parentFolderId"}
      [] operation = "listDocuments" ->
           {"includedMetadataKeys", "excludedMetadataKeys", "withAutoexportStatus",
            "filterDateCreatedAfter", "subfoldersRecursive"}
      [] operation = "search" ->
           DOMAIN QueryKeyOf \ {"parentFolderId", "includedMetadataKeys",
                               "excludedMetadataKeys", "withAutoexportStatus",
                               "filterDateCreatedAfter", "subfoldersRecursive"}
      [] OTHER -> {}

\* The key an option is sent under: the hyphenated one, but for
\* excludedMetadataKeys in the fetch-based client.
SentKeyOf(option) ==
    IF variant = "fetch" /\ option = "excludedMetadataKeys"
    THEN "excluded-matadata-keys"
    ELSE QueryKeyOf[option]

\* The caller supplied a value: neither undefined nor null.
Supplied(option) == Opt(opts, option) # Undef /\ Opt(opts, option) # Null

\* The options the source tests with `!== undefined`.
SentWhenDefined ==
    {"withAutoexportStatus", "subfoldersRecursive", "paginationSize", "paginationPage",
     "locationFolderId", "recursive", "archiverId", "includeTrash"}

\* The statement of C8 as written: the key of an optional query parameter is in
\* the request if and only if the caller supplied a value for it.
C8_AsWritten ==
    RequestSent =>
        \A option \in OptionalParameters(op) :
            (SentKeyOf(option) \in DOMAIN req.query) <=> Supplied(option)

\* C8 (amended): an absent, undefined or null optional query parameter never
\* appears; an option the client tests with `!== undefined` appears if and only if
\* a value was supplied; every other option appears if and only if the supplied
\* value is truthy, so an empty string and a parentFolderId of 0 are left out.
C8_PresenceFollowsGuard ==
    RequestSent =>
        \A option \in OptionalParameters(op) :
            /\ ~Supplied(option) => SentKeyOf(option) \notin DOMAIN req.query
            /\ (SentKeyOf(option) \in DOMAIN req.query) <=>
                 IF option \in SentWhenDefined THEN Supplied(option)
                 ELSE Supplied(option) /\ Truthy(Opt(opts, option))

\* A search sent with an empty fulltextAll and recursive = false: the first is
\* left out, the second is sent.
C8_Witness ==
    /\ pc = "sent"
    /\ op = "search"
    /\ opts = [fulltextAll |-> Str(<<>>), recursive |-> Bool(FALSE)]
    /\ DOMAIN req.query = {"recursive"}
    /\ req.query["recursive"] = <<"f", "a", "l", "s", "e">>

DateOptions == {"filterDateCreatedAfter", "fromDate", "toDate"}

\* s is YYYY-MM-DD: four digits, a hyphen, two digits, a hyphen, two digits.
IsCalendarDate(s) ==
    /\ Len(s) = 10
    /\ \A i \in {1, 2, 3, 4, 6, 7, 9, 10} : IsDigit(s[i])
    /\ s[5] = "-"
    /\ s[8] = "-"

UtcDateOf(hours) ==
    CASE hours = 473352 + 23 -> <<"2", "0", "2", "4", "-", "0", "1", "-", "0", "1">>
      [] hours = 473352 -> <<"2", "0", "2", "4", "-", "0", "1", "-", "0", "1">>
      [] hours = 473352 - 1 -> <<"2", "0", "2", "3", "-", "1", "2", "-", "3", "1">>
      [] hours = 474780 -> <<"2", "0", "2", "4", "-", "0", "2", "-", "2", "9">>

C10_NonOkStatusFails ==
    (pc = "done" /\ resp.kind = "response" /\ ~(resp.status \in 200..299)) =>
        /\ outcome.kind = "DocboxError"
        /\ outcome.statusCode = Num(resp.status)

\* A 404 answered to a listDocuments call.
C10_Witness ==
    /\ pc = "done"
    /\ op = "listDocuments"
    /\ resp.kind = "response"
    /\ resp.status = 404
    /\ outcome.kind = "DocboxError"
    /\ outcome.statusCode = Num(404)

\* C11: a 2xx response with an empty body always yields a default/empty success
\* value (an empty record or an empty text), never a failure, whatever its
\* content-type and content-length headers are.
C11_EmptyBodySucceeds ==
    (pc = "done" /\ resp.kind = "response" /\ resp.status \in 200..299
       /\ resp.body = <<>>) =>
        /\ outcome.kind = "value"
        /\ outcome.value \in { [t |-> "object", entries |-> <<>>],
                               [t |-> "string", s |-> <<>>] }

\* C12: scenario C: when the remote answers 404 with the JSON body
\* {"message":"not found"}, the operation fails with a DocboxError whose
\* statusCode is 404 and whose message is derived from that body: it holds the
\* remote's message 'not found'.
C12_ScenarioC ==
    (pc = "done" /\ resp.kind = "response" /\ resp.status = 404
       /\ resp.body = <<"{", "\"", "m", "e", "s", "s", "a", "g", "e", "\"", ":", "\"", "n", "o", "t", " ", "f", "o", "u", "n", "d", "\"", "}">>) =>
        /\ outcome.kind = "DocboxError"
        /\ outcome.statusCode = [t |-> "number", n |-> 404]
        /\ Occurrences(outcome.message, <<"n", "o", "t", " ", "f", "o", "u", "n", "d">>) >= 1

\* The statement of C13 as written: a transport failure yields a DocboxError
\* with no status code that carries the underlying error as its cause (here:
\* anything of it besides the message), and a DocboxError carries a statusCode
\* if and only if the remote answered with a non-2xx status.
C13_AsWritten ==
    /\ (pc = "done" /\ resp.kind = "failure") =>
         /\ outcome.kind = "DocboxError"
         /\ outcome.statusCode = [t |-> "undefined"]
         /\ outcome.responseBody # [t |-> "undefined"]
    /\ (pc = "done" /\ outcome.kind = "DocboxError") =>
         (outcome.statusCode # [t |-> "undefined"]
            <=> (resp.kind = "response" /\ ~(resp.status \in 200..299)))

\* C13 (amended): a transport failure yields a DocboxError with no status code
\* whose message ends with the message of the underlying transport error; the
\* error itself is not attached (the fetch-based client keeps its stack text as
\* responseBody, the axios-based client keeps nothing besides the message). A
\* DocboxError carries a statusCode if and only if the remote answered with a
\* non-2xx status, and then that status.
C13_TransportFailureHasNoStatus ==
    /\ (pc = "done" /\ resp.kind = "failure") =>
         /\ outcome.kind = "DocboxError"
         /\ outcome.statusCode = [t |-> "undefined"]
         /\ EndsWith(outcome.message, resp.message)
         /\ IF variant = "fetch"
            THEN /\ outcome.responseBody.t = "string"
                 /\ EndsWith(outcome.responseBody.s, resp.message)
            ELSE outcome.responseBody = [t |-> "undefined"]
    /\ (pc = "done" /\ outcome.kind = "DocboxError") =>
         /\ outcome.statusCode # [t |-> "undefined"]
              <=> (resp.kind = "response" /\ ~(resp.status \in 200..299))
         /\ outcome.statusCode # [t |-> "undefined"] =>
              outcome.statusCode = [t |-> "number", n |-> resp.status]

\* A createFolder call of the axios-based client that could not reach the remote.
C13_Witness ==
    /\ pc = "done"
    /\ variant = "axios"
    /\ op = "createFolder"
    /\ resp.kind = "failure"
    /\ outcome.kind = "DocboxError"
    /\ outcome.statusCode = [t |-> "undefined"]
    /\ outcome.message = <<"f", "e", "t", "c", "h", " ", "f", "a", "i", "l", "e", "d">>

\* C14: every call of a public operation settles either with its value or with
\* a DocboxError; it never rejects with an error of any other type, also not
\* for an error raised while the URL, the date strings or the form are built.
C14_OnlyDocboxError ==
    pc = "done" => outcome.kind \in {"value", "DocboxError"}

FormPartOf ==
    [targetMandatorName |-> "targetMandatorName",
     targetFolderPath |-> "targetFolderPath",
     targetFolderId |-> "targetFolderId",
     targetDocumentName |-> "targetDocumentName",
     keywords |-> "keywords",
     documentTypes |-> "documentTypes",
     externalId |-> "externalId",
     externalMetadata |-> "externalMetadatas",
     emailImportOrder |-> "emailImportOrder",
     forceNewDocument |-> "forceNewDocument"]

\* The names of the parts of the form in the request.
PartNames == { req.body.parts[i].name : i \in 1..Len(req.body.parts) }

UploadSent == RequestSent /\ op = "uploadFile" /\ req.body.kind = "form"

\* The statement of C16 as written: besides the file part, the form holds
\* exactly the optional fields the caller supplied, whatever their values.
C16_AsWritten ==
    UploadSent =>
        \A field \in DOMAIN FormPartOf :
            (FormPartOf[field] \in PartNames) <=> Supplied(field)

\* The value of the field passes the test the client makes before appending it.
FieldIsSent(field) ==
    LET v == Opt(opts, field)
    IN  CASE field = "forceNewDocument" -> TRUE
          [] field \in {"keywords", "documentTypes"} -> v.items # <<>>
          [] field = "externalMetadata" -> TRUE
          [] field = "targetFolderId" -> v.n # 0
          [] OTHER -> v.s # <<>>

\* C16 (amended): the form of an upload holds the file part 'uploadData' first
\* and, besides it, one part for each optional field that was supplied with a
\* value that passes the client's test, and no other part: a field not supplied
\* never appears; a supplied empty string, a targetFolderId of 0 and an empty
\* keywords or documentTypes list are left out like absent ones;
\* forceNewDocument and externalMetadata appear whenever supplied (the latter
\* under the name 'externalMetadatas').
C16_PartsFollowGuards ==
    UploadSent =>
        /\ req.body.parts[1].name = "uploadData"
        /\ req.body.parts[1].value = Opt(opts, "fileData").s
        /\ PartNames \subseteq {"uploadData"} \cup { FormPartOf[f] : f \in DOMAIN FormPartOf }
        /\ Cardinality(PartNames) = Len(req.body.parts)
        /\ \A field \in DOMAIN FormPartOf :
             /\ ~Supplied(field) => FormPartOf[field] \notin PartNames
             /\ (FormPartOf[field] \in PartNames) <=>
                  (Supplied(field) /\ FieldIsSent(field))

\* An upload with targetFolderId = 0 and forceNewDocument = false: the first is
\* left out, the second is sent as 'false'.
C16_Witness ==
    /\ pc = "sent"
    /\ op = "uploadFile"
    /\ Opt(opts, "targetFolderId") = [t |-> "number", n |-> 0]
    /\ Opt(opts, "forceNewDocument") = [t |-> "boolean", b |-> FALSE]
    /\ Len(req.body.parts) = 2
    /\ req.body.parts[2].name = "forceNewDocument"
    /\ req.body.parts[2].value = <<"f", "a", "l", "s", "e">>

\* C17: scenario B: listDocuments with folderId = 123 and subfoldersRecursive =
\* true sends a GET to '<endpoint>/document/list' whose query string holds
\* folder-id=123 and subfolders-recursive=true and no other key.
C17_ScenarioB ==
    (RequestSent /\ op = "listDocuments"
       /\ opts = [folderId |-> [t |-> "number", n |-> 123],
                  subfoldersRecursive |-> [t |-> "boolean", b |-> TRUE]]) =>
        /\ req.method = "GET"
        /\ req.url = baseApiUrl \o <<"/", "d", "o", "c", "u", "m", "e", "n", "t", "/", "l", "i", "s", "t">>
        /\ DOMAIN req.query = {"folder-id", "subfolders-recursive"}
        /\ req.query["folder-id"] = <<"1", "2", "3">>
        /\ req.query["subfolders-recursive"] = <<"t", "r", "u", "e">>
        /\ req.body.kind = "none"

\* The call of scenario B, sent by a client of the fetch variant.
C17_Witness ==
    /\ pc = "sent"
    /\ variant = "fetch"
    /\ op = "listDocuments"
    /\ opts = [folderId |-> [t |-> "number", n |-> 123],
               subfoldersRecursive |-> [t |-> "boolean", b |-> TRUE]]
    /\ DOMAIN req.query = {"folder-id", "subfolders-recursive"}

CreateFolderSent == RequestSent /\ op = "createFolder"

EndpointTable ==
    { <<"getArchiveStructure", "GET", <<"/", "a", "r", "c", "h", "i", "v", "e", "s", "t", "r", "u", "c", "t", "u", "r", "e">>>>,
      <<"listDocuments", "GET", <<"/", "d", "o", "c", "u", "m", "e", "n", "t", "/", "l", "i", "s", "t">>>>,
      <<"uploadFile", "POST", <<"/", "f", "i", "l", "e", "-", "u", "p", "l", "o", "a", "d">>>>,
      <<"createFolder", "POST", <<"/", "f", "o", "l", "d", "e", "r", "/", "c", "r", "e", "a", "t", "e">>>>,
      <<"listInboxes", "GET", <<"/", "i", "n", "b", "o", "x", "e", "s">>>>,
      <<"search", "POST", <<"/", "s", "e", "a", "r", "c", "h">>>> }

\* Every request sent goes to the method and path of its operation's row.
RequestsFollowTable ==
    RequestSent =>
        /\ \E row \in EndpointTable :
             /\ row[1] = op
             /\ req.method = row[2]
             /\ req.url = baseApiUrl \o row[3]
        /\ op = "listInboxes" => (DOMAIN req.query = {} /\ req.body.kind = "none")

QueryOfAlone(option) ==
    SerializeParams(BuildParams(SearchRows, (option :> opts[option])))

\* C20: search requires no parameter: called without options it sends a POST
\* to '<endpoint>/search' with an empty query. A key is in the query only if it
\* is the hyphenated key of a filter the caller supplied, and whether and how a
\* filter is sent depends on that filter alone: it is sent exactly as it would
\* be if it were the only one.
C20_SearchFilters ==
    (RequestSent /\ op = "search") =>
        /\ req.method = "POST"
        /\ req.url = baseApiUrl \o <<"/", "s", "e", "a", "r", "c", "h">>
        /\ DOMAIN opts = {} => DOMAIN req.query = {}
        /\ \A key \in DOMAIN req.query :
             \E option \in OptionalParameters("search") :
                 QueryKeyOf[option] = key /\ Supplied(option)
        /\ \A option \in DOMAIN opts :
             LET key == QueryKeyOf[option]
             IN  /\ (key \in DOMAIN req.query) <=> (key \in DOMAIN QueryOfAlone(option))
                 /\ key \in DOMAIN req.query => req.query[key] = QueryOfAlone(option)[key]

\* A search with two filters: both are sent, each under its own key.
C20_Witness ==
    /\ pc = "sent"
    /\ op = "search"
    /\ opts = [documentNameTerms |-> [t |-> "string", s |-> <<"x">>],
               paginationSize |-> [t |-> "number", n |-> 0]]
    /\ DOMAIN req.query = {"document-name-terms", "pagination-size"}
    /\ req.query["pagination-size"] = <<"0">>

\* C21: after any sequence of calls, successful or failed, the stored
\* configuration and the effective endpoint are the values of the construction:
\* no step of any operation changes them, the endpoint is at all times the one
\* the constructor derives from the configuration, and every request is sent
\* under that stored endpoint.
C21_ConfigurationIsFrozen ==
    /\ [](baseApiUrl = ComputeBaseApiUrl(variant, config))
    /\ []((pc \in {"sent", "done"} /\ req # [method |-> "none"]) =>
            StartsWith(req.url, baseApiUrl))
    /\ [][config' = config /\ baseApiUrl' = baseApiUrl /\ variant' = variant]_vars

\* A failed call on a client configured with port 9000: the endpoint still is the
\* constructed one.
C21_Witness ==
    /\ pc = "done"
    /\ outcome.kind = "DocboxError"
    /\ config.port = [t |-> "number", n |-> 9000]
    /\ config.baseUrl = <<"h", "t", "t", "p", "s", ":", "/", "/", "h", "o", "s", "t">>
    /\ baseApiUrl = <<"h", "t", "t", "p", "s", ":", "/", "/", "h", "o", "s", "t", ":", "9", "0", "0", "0", "/", "a", "p", "i", "/", "v", "2">>

\* The response is a success that announces JSON and carries a body to decode.
JsonBodyAnnounced ==
    /\ resp.kind = "response"
    /\ resp.status \in 200..299
    /\ resp.status # 204
    /\ resp.contentLength # [t |-> "string", s |-> <<"0">>]
    /\ resp.contentType.t = "string"
    /\ Occurrences(resp.contentType.s, <<"a", "p", "p", "l", "i", "c", "a", "t", "i", "o", "n", "/", "j", "s", "o", "n">>) >= 1
    /\ resp.body # <<>>

\* C23: a 2xx response with a JSON content type whose body cannot be parsed
\* yields a DocboxError without a status code: never a returned value, never
\* the parser's own exception.
C23_UnparsableJsonFails ==
    (pc = "done" /\ JsonBodyAnnounced /\ ~JsonParse(resp.body).ok) =>
        /\ outcome.kind = "DocboxError"
        /\ outcome.statusCode = [t |-> "undefined"]

\* C24: a request with a plain-record body (createFolder) carries the record as
\* JSON text and the header 'Content-Type: application/json'; a request without
\* a body (the GET operations and search) carries no body and no JSON
\* Content-Type.
C24_JsonContentType ==
    RequestSent =>
        CASE op = "createFolder" ->
               /\ req.body.kind = "json"
               /\ StartsWith(req.body.text, <<"{", "\"", "n", "a", "m", "e", "\"", ":">>)
               /\ EndsWith(req.body.text, <<"}">>)
               /\ "Content-Type" \in DOMAIN req.headers
               /\ req.headers["Content-Type"] = <<"a", "p", "p", "l", "i", "c", "a", "t", "i", "o", "n", "/", "j", "s", "o", "n">>
          [] op \in {"getArchiveStructure", "listDocuments", "listInboxes", "search"} ->
               /\ req.body.kind = "none"
               /\ \A h \in DOMAIN req.headers \cap {"Content-Type", "content-type"} :
                    req.headers[h] # <<"a", "p", "p", "l", "i", "c", "a", "t", "i", "o", "n", "/", "j", "s", "o", "n">>
          [] OTHER -> TRUE

\* A createFolder sent by a client of the fetch variant, with its JSON header.
C24_Witness ==
    /\ pc = "sent"
    /\ variant = "fetch"
    /\ op = "createFolder"
    /\ req.body.kind = "json"
    /\ req.headers["Content-Type"] = <<"a", "p", "p", "l", "i", "c", "a", "t", "i", "o", "n", "/", "j", "s", "o", "n">>

RECURSIVE CommaSeparated(_)
\* The texts of a list, first to last, with a comma between neighbours.
CommaSeparated(items) ==
    IF Len(items) = 0 THEN <<>>
    ELSE IF Len(items) = 1 THEN items[1]
    ELSE CommaSeparated(SubSeq(items, 1, Len(items) - 1)) \o <<",">> \o items[Len(items)]

\* The parts of the form in the request that carry the name `name`.
PartsNamed(name) == { i \in 1..Len(req.body.parts) : req.body.parts[i].name = name }

\* The JSON text of a mapping of at most one string entry.
MappingAsJson(entries) ==
    IF Len(entries) = 0 THEN <<"{", "}">>
    ELSE <<"{", "\"">> \o entries[1][1] \o <<"\"", ":", "\"">> \o entries[1][2].s \o <<"\"", "}">>

\* C25: an upload always carries the file part 'uploadData' with the given file
\* name; a non-empty keywords or documentTypes list is sent as one form part
\* whose value is the list's elements joined with commas in their order; a
\* supplied externalMetadata mapping is sent as its JSON text in exactly one
\* form part.
C25_UploadParts ==
    UploadSent =>
        /\ Cardinality(PartsNamed("uploadData")) = 1
        /\ req.body.parts[1].name = "uploadData"
        /\ req.body.parts[1].filename = Opt(opts, "fileName")
        /\ req.body.parts[1].value = Opt(opts, "fileData").s
        /\ \A field \in {"keywords", "documentTypes"} :
             (Supplied(field) /\ Len(Opt(opts, field).items) > 0) =>
                 /\ Cardinality(PartsNamed(field)) = 1
                 /\ \A i \in PartsNamed(field) :
                      req.body.parts[i].value = CommaSeparated(Opt(opts, field).items)
        /\ Supplied("externalMetadata") =>
             /\ Cardinality({ i \in 1..Len(req.body.parts) :
                                req.body.parts[i].value = MappingAsJson(Opt(opts, "externalMetadata").entries)
                                /\ req.body.parts[i].name # "uploadData" }) >= 1
             /\ Cardinality(PartsNamed("externalMetadatas")) = 1
             /\ \A i \in PartsNamed("externalMetadatas") :
                  req.body.parts[i].value = MappingAsJson(Opt(opts, "externalMetadata").entries)

\* An upload with the keywords x and 2024 and a one-entry metadata mapping.
C25_Witness ==
    /\ pc = "sent"
    /\ op = "uploadFile"
    /\ Opt(opts, "keywords") = [t |-> "array", items |-> << <<"x">>, <<"2", "0", "2", "4">> >>]
    /\ Supplied("externalMetadata")
    /\ Len(Opt(opts, "externalMetadata").entries) = 1
    /\ Len(req.body.parts) = 3
    /\ req.body.parts[2].value = <<"x", ",", "2", "0", "2", "4">>
    /\ req.body.parts[3].value = <<"{", "\"", "x", "\"", ":", "\"", "1", "\"", "}">>

\* C26: getArchiveStructure sends parentFolderId under the key
\* 'parent-folder-id' and leaves the key out when the value is falsy (undefined,
\* null or 0): a call with parentFolderId = 0 sends the request of a call with
\* no options, a GET of '<endpoint>/archivestructure' with an empty query.
C26_ParentFolderIdFalsyOmitted ==
    (RequestSent /\ op = "getArchiveStructure") =>
        /\ req.method = "GET"
        /\ req.url = baseApiUrl \o <<"/", "a", "r", "c", "h", "i", "v", "e", "s", "t", "r", "u", "c", "t", "u", "r", "e">>
        /\ req.body.kind = "none"
        /\ LET id == Opt(opts, "parentFolderId")
           IN  IF id.t = "number" /\ id.n # 0
               THEN /\ DOMAIN req.query = {"parent-folder-id"}
                    /\ DigitsToNat(req.query["parent-folder-id"]) = id.n
               ELSE DOMAIN req.query = {}

\* getArchiveStructure({parentFolderId: 0}) sent with an empty query.
C26_Witness ==
    /\ pc = "sent"
    /\ op = "getArchiveStructure"
    /\ opts = [parentFolderId |-> [t |-> "number", n |-> 0]]
    /\ DOMAIN req.query = {}

\* The hyphenated key of every option that is sent as a query parameter.
HyphenatedKeyOf == ("folderId" :> "folder-id") @@ QueryKeyOf

\* C27: the query key of every public option is the hyphenated form of its
\* camelCase name, by one fixed table (excludedMetadataKeys is sent as
\* 'excluded-metadata-keys'); both clients therefore send the same keys for the
\* same listDocuments and getArchiveStructure options.
C27_KeysAreHyphenated ==
    (RequestSent /\ op \in {"getArchiveStructure", "listDocuments", "search"}) =>
        /\ \A key \in DOMAIN req.query :
             \E option \in DOMAIN opts : HyphenatedKeyOf[option] = key
        /\ \A option \in DOMAIN opts :
             (Opt(opts, option).t = "string" /\ Opt(opts, option).s # <<>>) =>
                 HyphenatedKeyOf[option] \in DOMAIN req.query

\* The response has an empty body announced by content-length 0, or a content
\* type that is not JSON.
EmptyOrNotJson ==
    \/ resp.contentLength = [t |-> "string", s |-> <<"0">>]
    \/ resp.contentType.t # "string"
    \/ Occurrences(resp.contentType.s, <<"a", "p", "p", "l", "i", "c", "a", "t", "i", "o", "n", "/", "j", "s", "o", "n">>) = 0

\* C28: the status is checked before the body: a non-2xx response with an
\* empty body or a content type that is not JSON is a failure with its status
\* code, never an empty or raw-text success, and the DocboxError of a non-2xx
\* status reaches the caller as it was raised, not wrapped again as a network
\* error without status.
C28_StatusBeforeBody ==
    (pc = "done" /\ resp.kind = "response" /\ ~(resp.status \in 200..299)) =>
        /\ outcome.kind = "DocboxError"
        /\ outcome.statusCode = [t |-> "number", n |-> resp.status]
        /\ ~StartsWith(outcome.message, <<"N", "e", "t", "w", "o", "r", "k", " ", "e", "r", "r", "o", "r">>)
        /\ variant = "fetch" =>
             /\ outcome.message = <<"A", "P", "I", " ", "r", "e", "q", "u", "e", "s", "t", " ", "f", "a", "i", "l", "e", "d", ":", " ">> \o resp.statusText
             /\ outcome.responseBody = [t |-> "string", s |-> resp.body]

\* A 500 with content-length 0 and no content type, answered to the fetch variant.
C28_Witness ==
    /\ pc = "done"
    /\ variant = "fetch"
    /\ resp.kind = "response"
    /\ resp.status = 500
    /\ resp.contentLength = [t |-> "string", s |-> <<"0">>]
    /\ EmptyOrNotJson
    /\ outcome.kind = "DocboxError"
    /\ outcome.statusCode = [t |-> "number", n |-> 500]

\* s without its last character when that is a slash.
WithoutFinalSlash(s) ==
    IF Len(s) > 0 /\ s[Len(s)] = "/" THEN SubSeq(s, 1, Len(s) - 1) ELSE s

\* C29: a base that ends in a slash gives the effective endpoint of the same
\* base without that slash; the endpoint never holds a '/' right before a port
\* suffix nor '//' before 'api/v2'; and a base such as 'https://host:8081/'
\* still counts as carrying its own port: the endpoint is 'https://host:8081'
\* followed by '/api/v2'.
C29_TrailingSlash ==
    /\ baseApiUrl
         = ComputeBaseApiUrl(variant, [config EXCEPT !.baseUrl = WithoutFinalSlash(config.baseUrl)])
    /\ Occurrences(baseApiUrl, <<"/", ":">>) = 0
    /\ Occurrences(baseApiUrl, <<"/", "/", "a", "p", "i", "/", "v", "2">>) = 0
    /\ (EndsWith(config.baseUrl, <<"/">>) /\ HasPortSuffix(WithoutFinalSlash(config.baseUrl))) =>
         baseApiUrl = WithoutFinalSlash(config.baseUrl) \o <<"/", "a", "p", "i", "/", "v", "2">>

\* C30: defined but falsy values of the required and the boolean options are
\* sent: listDocuments always sends 'folder-id', also for folderId = 0;
\* withAutoexportStatus = false and subfoldersRecursive = false are sent as
\* 'false'; an upload with forceNewDocument = false carries the part
\* 'forceNewDocument' with the value 'false'.
C30_FalsyValuesStillSent ==
    /\ (RequestSent /\ op = "listDocuments") =>
         /\ "folder-id" \in DOMAIN req.query
         /\ DigitsToNat(req.query["folder-id"]) = Opt(opts, "folderId").n
         /\ Opt(opts, "folderId").n = 0 => req.query["folder-id"] = <<"0">>
         /\ \A pair \in { <<"withAutoexportStatus", "with-autoexport-status">>,
                          <<"subfoldersRecursive", "subfolders-recursive">> } :
              Opt(opts, pair[1]).t = "boolean" =>
                  /\ pair[2] \in DOMAIN req.query
                  /\ req.query[pair[2]]
                       = (IF Opt(opts, pair[1]).b THEN <<"t", "r", "u", "e">>
                          ELSE <<"f", "a", "l", "s", "e">>)
    /\ (UploadSent /\ Opt(opts, "forceNewDocument").t = "boolean") =>
         /\ Cardinality(PartsNamed("forceNewDocument")) = 1
         /\ \A i \in PartsNamed("forceNewDocument") :
              req.body.parts[i].value
                = (IF Opt(opts, "forceNewDocument").b THEN <<"t", "r", "u", "e">>
                   ELSE <<"f", "a", "l", "s", "e">>)

\* listDocuments({folderId: 0, withAutoexportStatus: false, subfoldersRecursive: false}).
C30_Witness ==
    /\ pc = "sent"
    /\ op = "listDocuments"
    /\ opts = [folderId |-> [t |-> "number", n |-> 0],
               withAutoexportStatus |-> [t |-> "boolean", b |-> FALSE],
               subfoldersRecursive |-> [t |-> "boolean", b |-> FALSE]]
    /\ req.query = [k \in {"folder-id", "with-autoexport-status", "subfolders-recursive"} |->
                      IF k = "folder-id" THEN <<"0">> ELSE <<"f", "a", "l", "s", "e">>]

\* The call a request record belongs to, as RequestFor takes it.
CallOf(name, o, r) ==
    [op |-> name, opts |-> o,
     boundary |-> IF r.body.kind = "form" THEN r.body.boundary ELSE <<>>]

\* A request that is no upload carries the default Accept header and no
\* multipart content type; an upload carries its own boundary's content type.
OwnHeaders(r) ==
    IF r.body.kind = "form"
    THEN /\ "content-type" \in DOMAIN r.headers
         /\ EndsWith(r.headers["content-type"], r.body.boundary)
    ELSE /\ "Accept" \in DOMAIN r.headers
         /\ "content-type" \notin DOMAIN r.headers

\* C22: two calls in progress on one client are independent: under every
\* interleaving, the request of each (target, query, headers, body) is the one
\* its operation builds from its own options alone, its outcome is the
\* interpretation of its own response alone, and the header changes of a
\* multipart upload (Accept dropped, the boundary's content type added) never
\* show in the request of the other call.
C22_ConcurrentCallsIndependent ==
    /\ RequestSent =>
         /\ req = RequestFor(variant, config, baseApiUrl, CallOf(op, opts, req))
         /\ OwnHeaders(req)
    /\ (other.pc \in {"sent", "done"} /\ other.req # [method |-> "none"]) =>
         /\ other.req = RequestFor(variant, config, baseApiUrl,
                                   CallOf(other.op, other.opts, other.req))
         /\ OwnHeaders(other.req)
    /\ (pc = "done" /\ resp.kind # "none") => outcome = Interpret(variant, resp)
    /\ (other.pc = "done" /\ other.resp.kind # "none") =>
         other.outcome = Interpret(variant, other.resp)
    /\ (pc = "sent" /\ other.pc = "sent" /\ op = other.op /\ opts = other.opts
          /\ req.body.kind # "form") => req = other.req

\* An upload is in flight while a listDocuments call, started after it, has
\* already failed with a 404: the list request carries Accept, the upload not
\* (fetch variant).
C22_Witness ==
    /\ variant = "fetch"
    /\ pc = "sent"
    /\ op = "uploadFile"
    /\ "Accept" \notin DOMAIN req.headers
    /\ other.pc = "done"
    /\ other.op = "listDocuments"
    /\ "Accept" \in DOMAIN other.req.headers
    /\ other.resp.kind = "response"
    /\ other.resp.status = 404
    /\ other.outcome.kind = "DocboxError"

====
